---- MODULE Spec2Model ----
(***************************************************************************)
(* Model of bridging_mail_mcp.py: a stdio bridge that spawns one child,    *)
(* relays the three standard streams on daemon threads, waits for the      *)
(* child and exits with its return code; SIGINT/SIGTERM run                *)
(* handle_termination in the main thread.                                  *)
(*                                                                         *)
(* Streams are sequences of characters over {"a", CR, LF}.  The pipes are  *)
(* opened with text=True (line 30), so reading applies universal newlines  *)
(* and writing translates LF to os.linesep; creationflags (line 29) is     *)
(* accepted by Popen on Windows only, so os.linesep is CR LF.              *)
(***************************************************************************)
EXTENDS Integers, Sequences, FiniteSets, TLC

\* ------------------------------------------------------------------ bounds
MaxChildLines == 1   \* lines the child writes, over both output streams
MaxSignals    == 2   \* signals delivered to the bridge

\* -------------------------------------------------------------- characters
CR == "CR"
LF == "LF"

\* Lines a process may write: a plain line and a line holding a lone
\* carriage return.  Each ends with LF.
Lines == { <<"a", LF>>, <<"a", CR, "a", LF>> }

\* What the caller sends to the bridge's stdin during a run: nothing, or
\* one plain line.
StdinInputs == { <<>>, <<"a", LF>> }

\* Codes the child exits with: success and failure.
ExitCodes == {0, 1}

OUT     == {"stdout", "stderr"}
RELAYS  == {"stdout", "stderr", "stdin"}
SIGNALS == {"SIGINT", "SIGTERM"}

VARIABLES
  mainpc,       \* position of the main thread in main(), "handler" once
                \* handle_termination has taken the thread over
  hpc,          \* position inside handle_termination, "none" when not running
  installed,    \* signals whose handler is handle_termination
  proc,         \* TRUE when the global proc holds the Popen object
  return_code,  \* <<>> for None, <<k>> once proc.wait() returned k
  child,        \* "none" | "running" | "exited"
  childKind,    \* "free" (any behaviour) | "echo" (echoes stdin, exits 0 on EOF)
  childCode,    \* the child's exit code once it has exited
  spawns,       \* child processes created so far
  bridgeExit,   \* how the bridge process ended, and with which status
  sigCount,     \* signals delivered so far
  sigHandled,   \* TRUE once handle_termination has been invoked
  termCount,    \* calls of proc.terminate() so far
  termSent,     \* TRUE once a termination request reached a running child
  rpc,          \* position of each relay thread
  held,         \* the line each relay has read and not yet written
  childWrote,   \* everything the child wrote to each of its output streams
  pipePos,      \* how much of childWrote each relay has consumed
  buf,          \* written to sys.stdout / sys.stderr, not yet flushed
  bridgeWrote,  \* what has reached the bridge's own stdout / stderr
  stdinRecv,    \* everything the caller writes to the bridge's stdin
  stdinPos,     \* how much of stdinRecv the input relay has consumed
  stdinClosed,  \* the caller closes the bridge's stdin after writing
  childIn,      \* everything written to the child's stdin
  childInPos,   \* how much of childIn the echo child has consumed
  ioFailed      \* relays ended by a stream I/O failure

vars == << mainpc, hpc, installed, proc, return_code, child, childKind,
           childCode, spawns, bridgeExit, sigCount, sigHandled, termCount, termSent,
           rpc, held, childWrote, pipePos, buf, bridgeWrote, stdinRecv,
           stdinPos, stdinClosed, childIn, childInPos, ioFailed >>

sigVars    == << sigCount, sigHandled, termCount, termSent >>
childVars  == << child, childKind, childCode, spawns >>
outVars    == << childWrote, pipePos, buf, bridgeWrote >>
inVars     == << stdinRecv, stdinPos, stdinClosed, childIn, childInPos >>
relayVars  == << rpc, held, ioFailed >>

\* ------------------------------------------------------- text conversions
\* os.linesep of the platform the bridge can spawn on.
linesep == <<CR, LF>>

\* Reading a text-mode stream with newline=None: CR LF and lone CR become LF.
RECURSIVE UniversalNewlines(_)
UniversalNewlines(s) ==
  IF s = <<>> THEN <<>>
  ELSE IF s[1] = CR
       THEN <<LF>> \o UniversalNewlines(
              IF Len(s) >= 2 /\ s[2] = LF THEN SubSeq(s, 3, Len(s)) ELSE Tail(s))
       ELSE <<s[1]>> \o UniversalNewlines(Tail(s))

\* Writing to a text-mode stream with newline=None: LF becomes os.linesep.
RECURSIVE WriteTranslate(_)
WriteTranslate(s) ==
  IF s = <<>> THEN <<>>
  ELSE (IF s[1] = LF THEN linesep ELSE <<s[1]>>) \o WriteTranslate(Tail(s))

\* Number of raw characters of the first line of s under universal newlines;
\* 0 when s holds no complete line (a trailing CR waits for the next
\* character, which may be the LF of a CR LF).
RawLineLen(s) ==
  LET ends == { i \in 1..Len(s) : s[i] \in {CR, LF} } IN
  IF ends = {} THEN 0
  ELSE LET i == CHOOSE j \in ends : \A k \in ends : j <= k IN
       IF s[i] = LF THEN i
       ELSE IF i = Len(s) THEN 0
       ELSE IF s[i + 1] = LF THEN i + 1 ELSE i

\* Number of characters of the first LF-terminated line of s, 0 if none: how
\* the echo child, reading bytes, delimits its input.
ByteLineLen(s) ==
  LET ends == { i \in 1..Len(s) : s[i] = LF } IN
  IF ends = {} THEN 0 ELSE CHOOSE j \in ends : \A k \in ends : j <= k

Rest(s, n) == SubSeq(s, n + 1, Len(s))

IsPrefix(s, t) == Len(s) <= Len(t) /\ SubSeq(t, 1, Len(s)) = s

\* ------------------------------------------------------------------- state
alive == mainpc # "exited"

Init ==
  /\ mainpc = "start"
  /\ hpc = "none"
  /\ installed = {}
  /\ proc = FALSE
  /\ return_code = <<>>
  /\ child = "none"
  /\ childKind \in {"free", "echo"}
  /\ childCode = 0
  /\ spawns = 0
  /\ bridgeExit = [how |-> "running", code |-> 0]
  /\ sigCount = 0
  /\ sigHandled = FALSE
  /\ termCount = 0
  /\ termSent = FALSE
  /\ rpc = [r \in RELAYS |-> "unstarted"]
  /\ held = [r \in RELAYS |-> <<>>]
  /\ childWrote = [s \in OUT |-> <<>>]
  /\ pipePos = [s \in OUT |-> 0]
  /\ buf = [s \in OUT |-> <<>>]
  /\ bridgeWrote = [s \in OUT |-> <<>>]
  /\ stdinRecv \in StdinInputs
  /\ stdinPos = 0
  /\ stdinClosed \in BOOLEAN
  /\ childIn = <<>>
  /\ childInPos = 0
  /\ ioFailed = {}


\* --------------------------------------------------------- process exit
\* sys.exit(code) in the main thread: SystemExit reaches the top level and the
\* interpreter finalizes.  The relays are daemon threads and are not joined:
\* they stop where they are and the line one holds is dropped.  Finalization
\* flushes sys.stdout and sys.stderr; if a relay is inside flush() holding the stream's buffer lock, the lock is
\* never released and the interpreter aborts ("Fatal Python error:
\* _enter_buffered_busy: could not acquire lock ... at interpreter shutdown,
\* possibly due to daemon threads"), with an abort status instead of code.
sys_exit(code) ==
  /\ mainpc' = "exited"
  /\ hpc' = "none"
  /\ rpc' = [r \in RELAYS |->
              IF rpc[r] \in {"unstarted", "done"} THEN rpc[r] ELSE "killed"]
  /\ held' = [r \in RELAYS |-> <<>>]
  /\ IF \E s \in OUT : rpc[s] = "flushing"
     THEN /\ bridgeExit' = [how |-> "fatal", code |-> -1]
          /\ UNCHANGED << buf, bridgeWrote >>
     ELSE /\ bridgeExit' = [how |-> "sys.exit", code |-> code]
          /\ bridgeWrote' = [s \in OUT |-> bridgeWrote[s] \o buf[s]]
          /\ buf' = [s \in OUT |-> <<>>]

\* ------------------------------------------------------------ main thread
mainRuns == alive /\ hpc = "none"

\* line 20
InstallSigint ==
  /\ mainRuns /\ mainpc = "start"
  /\ installed' = installed \cup {"SIGINT"}
  /\ mainpc' = "sigint_installed"
  /\ UNCHANGED << hpc, proc, return_code, bridgeExit >>
  /\ UNCHANGED << sigVars, childVars, outVars, inVars, relayVars >>

\* line 21
InstallSigterm ==
  /\ mainRuns /\ mainpc = "sigint_installed"
  /\ installed' = installed \cup {"SIGTERM"}
  /\ mainpc' = "installed"
  /\ UNCHANGED << hpc, proc, return_code, bridgeExit >>
  /\ UNCHANGED << sigVars, childVars, outVars, inVars, relayVars >>

\* PopenOk inside a restart loop: a child that has exited is replaced by a
\* new one.
PopenOkRespawns ==
  /\ mainRuns
  /\ mainpc = "installed" \/ (mainpc = "wait" /\ child = "exited")
  /\ spawns < 2
  /\ child' = "running"
  /\ spawns' = spawns + 1
  /\ mainpc' = "created"
  /\ rpc' = [r \in RELAYS |-> "unstarted"]
  /\ UNCHANGED << hpc, installed, proc, return_code, bridgeExit >>
  /\ UNCHANGED << childKind, childCode, held, ioFailed >>
  /\ UNCHANGED << sigVars, outVars, inVars >>

\* lines 23-32, the child is created; the result is not yet stored in proc
PopenOk ==
  /\ mainRuns /\ mainpc = "installed"
  /\ child' = "running"
  /\ spawns' = spawns + 1
  /\ mainpc' = "created"
  /\ UNCHANGED << hpc, installed, proc, return_code, bridgeExit >>
  /\ UNCHANGED << childKind, childCode >>
  /\ UNCHANGED << sigVars, outVars, inVars, relayVars >>

\* PopenFails with the failure turned into a clean exit.
PopenFailsExitsZero ==
  /\ mainRuns /\ mainpc = "installed"
  /\ mainpc' = "exited"
  /\ bridgeExit' = [how |-> "uncaught", code |-> 0]
  /\ UNCHANGED << hpc, installed, proc, return_code >>
  /\ UNCHANGED << sigVars, childVars, outVars, inVars, relayVars >>

\* lines 23-32, Popen raises (executable missing, permission denied): the
\* exception is caught nowhere and the interpreter exits with status 1
PopenFails ==
  /\ mainRuns /\ mainpc = "installed"
  /\ mainpc' = "exited"
  /\ bridgeExit' = [how |-> "uncaught", code |-> 1]
  /\ UNCHANGED << hpc, installed, proc, return_code >>
  /\ UNCHANGED << sigVars, childVars, outVars, inVars, relayVars >>

\* line 23, the assignment to the global proc
Publish ==
  /\ mainRuns /\ mainpc = "created"
  /\ proc' = TRUE
  /\ mainpc' = "start_out"
  /\ UNCHANGED << hpc, installed, return_code, bridgeExit >>
  /\ UNCHANGED << sigVars, childVars, outVars, inVars, relayVars >>

\* lines 62-68: t_out.start(), t_err.start(), t_in.start(), in this order
\* StartRelay with t.run() in place of t.start(): the relay body runs in the
\* calling thread, which goes on only when the relays before it have returned.
StartRelayRuns(r, at, next) ==
  /\ mainRuns /\ mainpc = at
  /\ \A q \in RELAYS \ {r} : rpc[q] \in {"unstarted", "done"}
  /\ rpc' = [rpc EXCEPT ![r] = "read"]
  /\ mainpc' = next
  /\ UNCHANGED << hpc, installed, proc, return_code, bridgeExit >>
  /\ UNCHANGED << held, ioFailed >>
  /\ UNCHANGED << sigVars, childVars, outVars, inVars >>

StartRelay(r, at, next) ==
  /\ mainRuns /\ mainpc = at
  /\ rpc' = [rpc EXCEPT ![r] = "read"]
  /\ mainpc' = next
  /\ UNCHANGED << hpc, installed, proc, return_code, bridgeExit >>
  /\ UNCHANGED << held, ioFailed >>
  /\ UNCHANGED << sigVars, childVars, outVars, inVars >>

StartOut == StartRelay("stdout", "start_out", "start_err")
StartErr == StartRelay("stderr", "start_err", "start_in")
StartIn  == StartRelay("stdin", "start_in", "wait")

\* Wait with poll() in place of wait(): it returns at once, None while the
\* child runs.
WaitDoesNotBlock ==
  /\ mainRuns /\ mainpc = "wait"
  /\ return_code' = IF child = "exited" THEN <<childCode>> ELSE <<>>
  /\ mainpc' = "got_rc"
  /\ UNCHANGED << hpc, installed, proc, bridgeExit >>
  /\ UNCHANGED << sigVars, childVars, outVars, inVars, relayVars >>

\* lines 70-72: return_code = proc.wait() returns once the child has exited
\* (lines 73-74 are never entered: handle_termination has replaced the
\* default SIGINT handler, the only source of KeyboardInterrupt here)
Wait ==
  /\ mainRuns /\ mainpc = "wait"
  /\ child = "exited"
  /\ return_code' = <<childCode>>
  /\ mainpc' = "got_rc"
  /\ UNCHANGED << hpc, installed, proc, bridgeExit >>
  /\ UNCHANGED << sigVars, childVars, outVars, inVars, relayVars >>

\* ExitMain after a join of the three relay threads: the main thread goes on
\* to sys.exit only when every relay has returned.
ExitMainJoins ==
  /\ mainRuns /\ mainpc = "got_rc"
  /\ \A r \in RELAYS : rpc[r] = "done"
  /\ sys_exit(IF return_code # <<>> THEN return_code[1] ELSE 0)
  /\ UNCHANGED << installed, proc, return_code, ioFailed >>
  /\ UNCHANGED << childWrote, pipePos >>
  /\ UNCHANGED << sigVars, childVars, inVars >>

\* line 76: sys.exit(return_code if return_code is not None else 0)
ExitMain ==
  /\ mainRuns /\ mainpc = "got_rc"
  /\ sys_exit(IF return_code # <<>> THEN return_code[1] ELSE 0)
  /\ UNCHANGED << installed, proc, return_code, ioFailed >>
  /\ UNCHANGED << childWrote, pipePos >>
  /\ UNCHANGED << sigVars, childVars, inVars >>

\* ---------------------------------------------------------------- signals
\* A SIGINT or SIGTERM reaches the bridge.  With handle_termination installed
\* for it, the handler starts in the main thread, which leaves whatever it was
\* doing (a blocked proc.wait() included) and never comes back to it, since
\* the handler ends in sys.exit; a signal that arrives while the handler runs
\* starts the handler again on top of it.  Without a handler the
\* default action ends the process with a non-zero status.
Signal(sig) ==
  /\ alive
  /\ sigCount < MaxSignals
  /\ sigCount' = sigCount + 1
  /\ IF sig \in installed
     THEN /\ hpc' = "check"
          /\ mainpc' = "handler"
          /\ sigHandled' = TRUE
          /\ UNCHANGED bridgeExit
     ELSE /\ mainpc' = "exited"
          /\ bridgeExit' = [how |-> "killed", code |-> -1]
          /\ UNCHANGED << hpc, sigHandled >>
  /\ UNCHANGED << installed, proc, return_code, termCount, termSent >>
  /\ UNCHANGED << childVars, outVars, inVars, relayVars >>

\* line 11: if proc and proc.poll() is None
HandlerCheck ==
  /\ alive /\ hpc = "check"
  /\ hpc' = IF proc /\ child = "running" THEN "terminate" ELSE "exit"
  /\ UNCHANGED << mainpc, installed, proc, return_code, bridgeExit >>
  /\ UNCHANGED << sigVars, childVars, outVars, inVars, relayVars >>

\* HandlerTerminate without the try/except around proc.terminate(): a call
\* that finds the child gone raises, and the exception ends the process.
HandlerTerminateRaises ==
  /\ alive /\ hpc = "terminate"
  /\ termCount' = termCount + 1
  /\ termSent' = (termSent \/ child = "running")
  /\ IF child = "running"
       THEN hpc' = "exit" /\ UNCHANGED << mainpc, bridgeExit >>
       ELSE /\ hpc' = "none" /\ mainpc' = "exited"
            /\ bridgeExit' = [how |-> "uncaught", code |-> 1]
  /\ UNCHANGED << installed, proc, return_code >>
  /\ UNCHANGED << sigCount, sigHandled >>
  /\ UNCHANGED << childVars, outVars, inVars, relayVars >>

\* lines 12-15: proc.terminate(); it reaches the child if the child still
\* runs, and whatever it raises is swallowed
HandlerTerminate ==
  /\ alive /\ hpc = "terminate"
  /\ termCount' = termCount + 1
  /\ termSent' = (termSent \/ child = "running")
  /\ hpc' = "exit"
  /\ UNCHANGED << mainpc, installed, proc, return_code, bridgeExit >>
  /\ UNCHANGED << sigCount, sigHandled >>
  /\ UNCHANGED << childVars, outVars, inVars, relayVars >>

\* line 16: sys.exit(0)
HandlerExit ==
  /\ alive /\ hpc = "exit"
  /\ sys_exit(0)
  /\ UNCHANGED << installed, proc, return_code, ioFailed >>
  /\ UNCHANGED << childWrote, pipePos >>
  /\ UNCHANGED << sigVars, childVars, inVars >>


\* -------------------------------------------------------------- the child
CountLF(s) == Cardinality({ i \in 1..Len(s) : s[i] = LF })

\* The child writes one line to one of its output streams.  Once the bridge
\* is gone the pipe has no reader and the write fails.
ChildWrite(s, l) ==
  /\ child = "running" /\ childKind = "free" /\ alive
  /\ CountLF(childWrote["stdout"]) + CountLF(childWrote["stderr"]) < MaxChildLines
  /\ childWrote' = [childWrote EXCEPT ![s] = @ \o l]
  /\ UNCHANGED << mainpc, hpc, installed, proc, return_code, bridgeExit >>
  /\ UNCHANGED << pipePos, buf, bridgeWrote >>
  /\ UNCHANGED << sigVars, childVars, inVars, relayVars >>

\* The echo child copies the next line of its stdin to its stdout.
ChildEcho ==
  /\ child = "running" /\ childKind = "echo" /\ alive
  /\ LET avail == Rest(childIn, childInPos)
         n     == ByteLineLen(avail)
     IN /\ n > 0
        /\ childWrote' = [childWrote EXCEPT !["stdout"] = @ \o SubSeq(avail, 1, n)]
        /\ childInPos' = childInPos + n
  /\ UNCHANGED << mainpc, hpc, installed, proc, return_code, bridgeExit >>
  /\ UNCHANGED << pipePos, buf, bridgeWrote >>
  /\ UNCHANGED << stdinRecv, stdinPos, stdinClosed, childIn >>
  /\ UNCHANGED << sigVars, childVars, relayVars >>

\* The child's stdin is at end-of-stream: every write end of the pipe is
\* closed and the child has read all of it.  The bridge never closes
\* proc.stdin, so its end closes only when the bridge process ends.
ChildStdinAtEOF == ~alive /\ Rest(childIn, childInPos) = <<>>

\* The child exits.  A free child exits whenever it likes with any code; the
\* echo child exits 0 at end of its stdin, or with the code TerminateProcess
\* gives it (1) once a termination request has reached it.
ChildExit(k) ==
  /\ child = "running"
  /\ \/ childKind = "free"
     \/ childKind = "echo" /\ ChildStdinAtEOF /\ k = 0
     \/ childKind = "echo" /\ termSent /\ k = 1
  /\ child' = "exited"
  /\ childCode' = k
  /\ UNCHANGED << mainpc, hpc, installed, proc, return_code, bridgeExit >>
  /\ UNCHANGED << childKind, spawns >>
  /\ UNCHANGED << sigVars, outVars, inVars, relayVars >>

\* ------------------------------------------- output relays (lines 34-52)
\* for line in proc.stdout: the next line, universal newlines applied, or the
\* end of the loop at end-of-stream.  (line == "" is never true of a line the
\* iteration yields.)
OutRead(s) ==
  /\ alive /\ rpc[s] = "read"
  /\ LET avail == Rest(childWrote[s], pipePos[s])
         n     == RawLineLen(avail)
     IN \/ /\ n > 0
           /\ held' = [held EXCEPT ![s] = UniversalNewlines(SubSeq(avail, 1, n))]
           /\ pipePos' = [pipePos EXCEPT ![s] = @ + n]
           /\ rpc' = [rpc EXCEPT ![s] = "write"]
        \/ /\ avail = <<>> /\ child = "exited"
           /\ rpc' = [rpc EXCEPT ![s] = "done"]
           /\ UNCHANGED << held, pipePos >>
  /\ UNCHANGED << mainpc, hpc, installed, proc, return_code, bridgeExit >>
  /\ UNCHANGED << childWrote, buf, bridgeWrote, ioFailed >>
  /\ UNCHANGED << sigVars, childVars, inVars >>

\* OutWrite without the flush that follows it: the relay goes back to its
\* read with the line still in the stream's buffer.
OutWriteNoFlush(s) ==
  /\ alive /\ rpc[s] = "write"
  /\ buf' = [buf EXCEPT ![s] = @ \o WriteTranslate(held[s])]
  /\ held' = [held EXCEPT ![s] = <<>>]
  /\ rpc' = [rpc EXCEPT ![s] = "read"]
  /\ UNCHANGED << mainpc, hpc, installed, proc, return_code, bridgeExit >>
  /\ UNCHANGED << childWrote, pipePos, bridgeWrote, ioFailed >>
  /\ UNCHANGED << sigVars, childVars, inVars >>

\* sys.stdout.write(line): into the stream's buffer
OutWrite(s) ==
  /\ alive /\ rpc[s] = "write"
  /\ buf' = [buf EXCEPT ![s] = @ \o WriteTranslate(held[s])]
  /\ held' = [held EXCEPT ![s] = <<>>]
  /\ rpc' = [rpc EXCEPT ![s] = "flush"]
  /\ UNCHANGED << mainpc, hpc, installed, proc, return_code, bridgeExit >>
  /\ UNCHANGED << childWrote, pipePos, bridgeWrote, ioFailed >>
  /\ UNCHANGED << sigVars, childVars, inVars >>

\* sys.stdout.flush(): takes the buffer lock and writes the buffer out ...
OutFlushBegin(s) ==
  /\ alive /\ rpc[s] = "flush"
  /\ bridgeWrote' = [bridgeWrote EXCEPT ![s] = @ \o buf[s]]
  /\ buf' = [buf EXCEPT ![s] = <<>>]
  /\ rpc' = [rpc EXCEPT ![s] = "flushing"]
  /\ UNCHANGED << mainpc, hpc, installed, proc, return_code, bridgeExit >>
  /\ UNCHANGED << childWrote, pipePos, held, ioFailed >>
  /\ UNCHANGED << sigVars, childVars, inVars >>

\* ... and releases the lock
OutFlushEnd(s) ==
  /\ alive /\ rpc[s] = "flushing"
  /\ rpc' = [rpc EXCEPT ![s] = "read"]
  /\ UNCHANGED << mainpc, hpc, installed, proc, return_code, bridgeExit >>
  /\ UNCHANGED << held, ioFailed >>
  /\ UNCHANGED << sigVars, childVars, outVars, inVars >>

\* OutFails with the exception leaving the relay and ending the process.
OutFailsEndsBridge(s) ==
  /\ alive /\ rpc[s] \in {"read", "write"}
  /\ rpc' = [rpc EXCEPT ![s] = "done"]
  /\ held' = [held EXCEPT ![s] = <<>>]
  /\ ioFailed' = ioFailed \cup {s}
  /\ mainpc' = "exited"
  /\ bridgeExit' = [how |-> "uncaught", code |-> 1]
  /\ UNCHANGED << hpc, installed, proc, return_code >>
  /\ UNCHANGED << sigVars, childVars, outVars, inVars >>

\* except: pass -- the read or the write raises (undecodable bytes, the
\* bridge's own stream closed); the relay ends and the line it held is lost
OutFails(s) ==
  /\ alive /\ rpc[s] \in {"read", "write"}
  /\ rpc' = [rpc EXCEPT ![s] = "done"]
  /\ held' = [held EXCEPT ![s] = <<>>]
  /\ ioFailed' = ioFailed \cup {s}
  /\ UNCHANGED << mainpc, hpc, installed, proc, return_code, bridgeExit >>
  /\ UNCHANGED << sigVars, childVars, outVars, inVars >>

OutRelay(s) ==
  OutRead(s) \/ OutWrite(s) \/ OutFlushBegin(s) \/ OutFlushEnd(s)

read_stdout == OutRelay("stdout")
read_stderr == OutRelay("stderr")

\* ---------------------------------------------- input relay (lines 54-60)
\* for line in sys.stdin
InRead ==
  /\ alive /\ rpc["stdin"] = "read"
  /\ LET avail == Rest(stdinRecv, stdinPos)
         n     == RawLineLen(avail)
     IN \/ /\ n > 0
           /\ held' = [held EXCEPT !["stdin"] = UniversalNewlines(SubSeq(avail, 1, n))]
           /\ stdinPos' = stdinPos + n
           /\ rpc' = [rpc EXCEPT !["stdin"] = "write"]
        \/ /\ avail = <<>> /\ stdinClosed
           /\ rpc' = [rpc EXCEPT !["stdin"] = "done"]
           /\ UNCHANGED << held, stdinPos >>
  /\ UNCHANGED << mainpc, hpc, installed, proc, return_code, bridgeExit >>
  /\ UNCHANGED << stdinRecv, stdinClosed, childIn, childInPos, ioFailed >>
  /\ UNCHANGED << sigVars, childVars, outVars >>

\* lines 57-58: proc.stdin.write(line); proc.stdin.flush().  The pipe is
\* line buffered and written through (text=True, bufsize=1), so the write
\* itself hands the line to the child and the flush finds nothing to do; with
\* the child gone the write raises and except: pass ends the relay
InWrite ==
  /\ alive /\ rpc["stdin"] = "write"
  /\ IF child = "exited"
     THEN /\ rpc' = [rpc EXCEPT !["stdin"] = "done"]
          /\ ioFailed' = ioFailed \cup {"stdin"}
          /\ UNCHANGED childIn
     ELSE /\ childIn' = childIn \o WriteTranslate(held["stdin"])
          /\ rpc' = [rpc EXCEPT !["stdin"] = "read"]
          /\ UNCHANGED ioFailed
  /\ held' = [held EXCEPT !["stdin"] = <<>>]
  /\ UNCHANGED << mainpc, hpc, installed, proc, return_code, bridgeExit >>
  /\ UNCHANGED << stdinRecv, stdinPos, stdinClosed, childInPos >>
  /\ UNCHANGED << sigVars, childVars, outVars >>

forward_stdin == InRead \/ InWrite

\* ------------------------------------------------------------- the system
main == \/ InstallSigint \/ InstallSigterm \/ PopenOk \/ PopenFails \/ Publish
        \/ StartOut \/ StartErr \/ StartIn \/ Wait \/ ExitMain

handle_termination == HandlerCheck \/ HandlerTerminate \/ HandlerExit

Next ==
  \/ main
  \/ handle_termination
  \/ read_stdout
  \/ read_stderr
  \/ forward_stdin
  \/ \E s \in OUT : OutFails(s)
  \/ \E sig \in SIGNALS : Signal(sig)
  \/ \E s \in OUT, l \in Lines : ChildWrite(s, l)
  \/ ChildEcho
  \/ \E k \in ExitCodes : ChildExit(k)

Spec == Init /\ [][Next]_vars

\* The main thread (handler included), the relay threads and the echo child
\* are scheduled: each keeps taking its steps while it has one to take.
\* Signals, the free child and I/O failures are under no
\* obligation to happen.
Fairness ==
  /\ WF_vars(main \/ handle_termination)
  /\ WF_vars(read_stdout)
  /\ WF_vars(read_stderr)
  /\ WF_vars(forward_stdin)
  /\ WF_vars(ChildEcho \/ (childKind = "echo" /\ ChildExit(0)))

FairSpec == Spec /\ Fairness


\* ------------------------------------------------------------------ claims
exited  == mainpc = "exited"
spawned == child # "none"

\* The bridge ended through sys.exit with status k.
ExitedWith(k) == bridgeExit.how = "sys.exit" /\ bridgeExit.code = k

\* What a relay makes of a stream: universal newlines on the way in, the
\* platform's line separator on the way out.
Forwarded(s) == WriteTranslate(UniversalNewlines(s))

\* C1: when the child was spawned, no signal was delivered and the child
\* exited with code K, the bridge's exit status is exactly K.
C1_StatusIsChildCode ==
  (exited /\ spawned /\ sigCount = 0 /\ child = "exited") => ExitedWith(childCode)

\* C2: with no signal and no stream I/O failure, every line the child wrote
\* before exiting has reached the bridge's corresponding stream when the
\* bridge has exited.
C2_NoOutputLost ==
  (exited /\ spawned /\ sigCount = 0 /\ ioFailed = {} /\ child = "exited")
    => \A s \in OUT : bridgeWrote[s] = Forwarded(childWrote[s])

\* C3: with the echo child, once one line was sent to the bridge's stdin and
\* that stdin was closed, the bridge eventually exits with the child's code 0
\* without any signal (and without any stream I/O failure).
C3_EchoRunEnds ==
  (childKind = "echo" /\ child = "running" /\ stdinRecv = <<"a", LF>> /\ stdinClosed)
    ~> (ExitedWith(0) \/ sigCount > 0 \/ ioFailed # {})

\* C4: once proc.wait() has returned the child's code K, a bridge that exits
\* through sys.exit exits with K, whether or not a signal arrives in between.
C4_ObtainedCodeIsStatus ==
  (exited /\ return_code # <<>> /\ bridgeExit.how = "sys.exit")
    => bridgeExit.code = return_code[1]

\* C5: when the bridge has exited, the child was never spawned, or has
\* exited, or proc.terminate() was called for it.
C5_NoUnterminatedChild ==
  exited => (child = "none" \/ child = "exited" \/ termCount > 0)

C7_SpawnFailure ==
  bridgeExit.how = "uncaught" =>
    /\ exited
    /\ bridgeExit.code # 0
    /\ child = "none"
    /\ \A r \in RELAYS : rpc[r] = "unstarted"
    /\ \A s \in OUT : bridgeWrote[s] = <<>> /\ buf[s] = <<>>

C7_Witness == bridgeExit.how = "uncaught" /\ installed = SIGNALS

\* C8: what the bridge has written to its stdout (stderr) is a prefix of what
\* the child has written to its stdout (stderr).
C8_OutputIsPrefix ==
  \A s \in OUT : IsPrefix(bridgeWrote[s], childWrote[s])

\* C9: what the input relay has written to the child's stdin is a prefix of
\* what was received on the bridge's stdin.
C9_InputIsPrefix == IsPrefix(childIn, stdinRecv)

\* C10: a bridge that has exited while the spawned child still runs has
\* received a signal.
C10_ExitOnlyAfterChild ==
  (exited /\ child = "running") => sigCount > 0

\* The bridge is still waiting for a running child although its stdin was at
\* end-of-stream and the input relay has ended.
C10_Witness ==
  mainpc = "wait" /\ child = "running" /\ rpc["stdin"] = "done" /\ sigCount = 0


\* C11: at most one child process is created during the life of the bridge,
\* and the child that exists is that one.
C11_AtMostOneChild ==
  /\ spawns <= 1
  /\ (spawns = 0) = (child = "none")

\* The one child has been spawned and has exited, relays have failed and a
\* signal has been handled: nothing of this spawned a second child.
C11_Witness ==
  spawns = 1 /\ child = "exited" /\ ioFailed # {} /\ sigHandled /\ exited


Suspended(r) ==
  /\ rpc[r] = "read"
  /\ IF r = "stdin"
       THEN Rest(stdinRecv, stdinPos) = <<>> /\ ~stdinClosed
       ELSE Rest(childWrote[r], pipePos[r]) = <<>> /\ child = "running"

OthersSuspended(r) == \E q \in RELAYS \ {r} : Suspended(q)

PendingOut(s) == Len(childWrote[s]) > pipePos[s]
PendingIn     == Len(stdinRecv) > stdinPos

\* C13: the relays do not block one another.  While another relay is
\* suspended on its read, what the child wrote to stdout is eventually all
\* written to the bridge's stdout, and likewise for stderr and for the
\* caller's input to the child's stdin, unless the bridge has exited or the
\* relay of that stream has itself failed.
C13_RelaysIndependent ==
  /\ (alive /\ PendingOut("stdout") /\ OthersSuspended("stdout"))
       ~> (\/ bridgeWrote["stdout"] = Forwarded(childWrote["stdout"])
           \/ ~alive \/ "stdout" \in ioFailed)
  /\ (alive /\ PendingOut("stderr") /\ OthersSuspended("stderr"))
       ~> (\/ bridgeWrote["stderr"] = Forwarded(childWrote["stderr"])
           \/ ~alive \/ "stderr" \in ioFailed)
  /\ (alive /\ PendingIn /\ OthersSuspended("stdin"))
       ~> (\/ childIn = Forwarded(stdinRecv)
           \/ ~alive \/ "stdin" \in ioFailed)

\* The child's stdout line is on the bridge's stdout while the other two
\* relays are still suspended, the input relay on a stdin that stays open.
C13_Witness ==
  /\ alive /\ child = "running"
  /\ Suspended("stdin") /\ Suspended("stderr")
  /\ childWrote["stdout"] # <<>>
  /\ bridgeWrote["stdout"] = Forwarded(childWrote["stdout"])


\* C14: shutdown only moves forward and is not retried: proc.terminate() is
\* called at most once over every sequence of signals, and once a signal has
\* been handled the main thread is in the handler or has exited, never back
\* in the code it was running.
C14_ShutdownForwardOnly ==
  /\ termCount <= 1
  /\ sigHandled => mainpc \in {"handler", "exited"}


\* C15: a relay flushes a line before it reads the next.  Whenever a relay is
\* at its read it holds no line, its stream's buffer is empty, and everything
\* it has read so far is on the other side: on the bridge's stream for the
\* output relays, on the child's stdin for the input relay.
C15_FlushedBeforeRead ==
  /\ \A s \in OUT :
       rpc[s] = "read" =>
         /\ held[s] = <<>> /\ buf[s] = <<>>
         /\ bridgeWrote[s] = Forwarded(SubSeq(childWrote[s], 1, pipePos[s]))
  /\ rpc["stdin"] = "read" =>
       /\ held["stdin"] = <<>>
       /\ childIn = Forwarded(SubSeq(stdinRecv, 1, stdinPos))

\* The output relay and the input relay have each forwarded a line and are
\* both suspended on the next read.
C15_Witness ==
  /\ Suspended("stdout") /\ pipePos["stdout"] > 0
  /\ Suspended("stdin") /\ stdinPos > 0


\* C16: once the child has exited the bridge eventually exits, whatever the
\* relays are doing: the main thread does not wait for them.
C16_ExitsAfterChild ==
  (alive /\ child = "exited") ~> exited

\* The bridge has exited without any signal while its input relay was still
\* suspended on a stdin that had nothing to read and was never closed.
C16_Witness ==
  /\ exited /\ bridgeExit.how = "sys.exit" /\ sigCount = 0
  /\ child = "exited"
  /\ stdinRecv = <<>> /\ ~stdinClosed /\ rpc["stdin"] = "killed"


\* C17: a termination request goes only to a running child.  The handler
\* goes on to proc.terminate() only with proc set and the child running, the
\* request reaches the child only while it runs, and a handler that finds no
\* child or an exited one goes straight to its exit; a bridge that has handled
\* a signal eventually exits; and a call of proc.terminate(), failed or not,
\* leaves the handler on its way to sys.exit(0): the bridge then exits with 0
\* unless a relay caught in its flush aborts the shutdown.
C17_TerminateOnlyRunning ==
  /\ [][/\ (hpc = "check" /\ hpc' # hpc) =>
             /\ termCount' = termCount
             /\ hpc' = IF proc /\ child = "running" THEN "terminate" ELSE "exit"
        /\ (termSent' /\ ~termSent) => (proc /\ child = "running")
        /\ termCount' # termCount =>
             /\ hpc = "terminate" /\ hpc' = "exit"
             /\ mainpc' = mainpc /\ bridgeExit' = bridgeExit]_vars
  /\ [](exited /\ termCount > 0 =>
          \/ ExitedWith(0)
          \/ bridgeExit.how = "fatal" /\ \E s \in OUT : rpc[s] = "killed")
  /\ (sigHandled /\ alive) ~> exited

\* proc.terminate() was called and found the child already gone, and the
\* bridge exited with 0.
C17_Witness ==
  /\ exited /\ termCount > 0 /\ ~termSent
  /\ child = "exited" /\ ExitedWith(0)

====
